---- MODULE Spec2Model ----
(***************************************************************************)
(* Model of src/Engine/LanguagePlurality.cpp (OpenXcom).                   *)
(*                                                                         *)
(* The file holds seven plurality rules, each a getSuffix(unsigned n)      *)
(* returning one of four suffix strings, and the static factory            *)
(* LanguagePlurality::create(language), which fills the static map         *)
(* s_factoryFunctions the first time it finds it empty and then looks the  *)
(* language up in it.                                                      *)
(*                                                                         *)
(* Three specifications share the variables:                               *)
(*   SpecFn   a rule instance applied to a count (the pure functions);     *)
(*   SpecSeq  calls of create() one after the other;                       *)
(*   Spec     calls of create() from several threads, interleaved at the   *)
(*            statements of create() that touch s_factoryFunctions.        *)
(***************************************************************************)
EXTENDS Integers, Sequences, FiniteSets, TLC

\* ---------------------------------------------------------------- bounds
\* Largest count handed to getSuffix.
MaxN == 200
\* Largest number of create() calls started in one sequential run.
MaxCalls == 3
\* Largest number of create() calls started in one concurrent run.
MaxConcurrentCalls == 2

\* The callers of create().
Threads == {"t1", "t2"}

\* ------------------------------------------------------ the seven rules
Variants ==
  {"OneSingular", "ZeroOneSingular", "NoSingular", "CyrillicPlurality",
   "CzechPlurality", "PolishPlurality", "RomanianPlurality"}

\* OneSingular::getSuffix
OneSingular_getSuffix(n) ==
  IF n = 1 THEN "_one" ELSE "_other"

\* ZeroOneSingular::getSuffix
ZeroOneSingular_getSuffix(n) ==
  IF n = 0 \/ n = 1 THEN "_one" ELSE "_other"

\* NoSingular::getSuffix with the suffix mistyped.
NoSingular_getSuffix_typo(n) ==
  "other"

\* NoSingular::getSuffix
NoSingular_getSuffix(n) ==
  "_other"

\* CyrillicPlurality::getSuffix without the exception for 11.
CyrillicPlurality_getSuffix_no11(n) ==
  IF n % 10 = 1
  THEN "_one"
  ELSE IF (n % 10 >= 2 /\ n % 10 <= 4) /\ ~(n % 100 >= 12 /\ n % 100 <= 14)
  THEN "_few"
  ELSE IF \/ n % 10 = 0
          \/ (n % 10 >= 5 /\ n % 10 <= 9)
          \/ (n % 100 >= 11 /\ n % 100 <= 14)
  THEN "_many"
  ELSE "_other"

\* CyrillicPlurality::getSuffix
CyrillicPlurality_getSuffix(n) ==
  IF n % 10 = 1 /\ n % 100 # 11
  THEN "_one"
  ELSE IF (n % 10 >= 2 /\ n % 10 <= 4) /\ ~(n % 100 >= 12 /\ n % 100 <= 14)
  THEN "_few"
  ELSE IF \/ n % 10 = 0
          \/ (n % 10 >= 5 /\ n % 10 <= 9)
          \/ (n % 100 >= 11 /\ n % 100 <= 14)
  THEN "_many"
  ELSE "_other"

\* CzechPlurality::getSuffix
CzechPlurality_getSuffix(n) ==
  IF n = 1
  THEN "_one"
  ELSE IF n >= 2 /\ n <= 4
  THEN "_few"
  ELSE "_other"

\* PolishPlurality::getSuffix taking every count that ends in 1 as singular.
PolishPlurality_getSuffix_mod10(n) ==
  IF n % 10 = 1
  THEN "_one"
  ELSE IF (n % 10 >= 2 /\ n % 10 <= 4) /\ ~(n % 100 >= 12 /\ n % 100 <= 14)
  THEN "_few"
  ELSE IF \/ (n % 10 >= 0 /\ n % 10 <= 1)
          \/ (n % 10 >= 5 /\ n % 10 <= 9)
          \/ (n % 100 >= 12 /\ n % 100 <= 14)
  THEN "_many"
  ELSE "_other"

\* PolishPlurality::getSuffix whose "_many" test forgets the counts ending in 1.
PolishPlurality_getSuffix_zeroOnly(n) ==
  IF n = 1
  THEN "_one"
  ELSE IF (n % 10 >= 2 /\ n % 10 <= 4) /\ ~(n % 100 >= 12 /\ n % 100 <= 14)
  THEN "_few"
  ELSE IF \/ n % 10 = 0
          \/ (n % 10 >= 5 /\ n % 10 <= 9)
          \/ (n % 100 >= 12 /\ n % 100 <= 14)
  THEN "_many"
  ELSE "_other"

\* PolishPlurality::getSuffix
PolishPlurality_getSuffix(n) ==
  IF n = 1
  THEN "_one"
  ELSE IF (n % 10 >= 2 /\ n % 10 <= 4) /\ ~(n % 100 >= 12 /\ n % 100 <= 14)
  THEN "_few"
  ELSE IF \/ (n % 10 >= 0 /\ n % 10 <= 1)
          \/ (n % 10 >= 5 /\ n % 10 <= 9)
          \/ (n % 100 >= 12 /\ n % 100 <= 14)
  THEN "_many"
  ELSE "_other"

\* RomanianPlurality::getSuffix testing n instead of n % 100.
RomanianPlurality_getSuffix_nomod(n) ==
  IF n = 1
  THEN "_one"
  ELSE IF n = 0 \/ (n >= 1 /\ n <= 19)
  THEN "_few"
  ELSE "_other"

\* RomanianPlurality::getSuffix
RomanianPlurality_getSuffix(n) ==
  IF n = 1
  THEN "_one"
  ELSE IF n = 0 \/ (n % 100 >= 1 /\ n % 100 <= 19)
  THEN "_few"
  ELSE "_other"

\* The virtual call rule->getSuffix(n): dispatch on the dynamic type.
getSuffix(r, n) ==
  CASE r = "OneSingular"       -> OneSingular_getSuffix(n)
    [] r = "ZeroOneSingular"   -> ZeroOneSingular_getSuffix(n)
    [] r = "NoSingular"        -> NoSingular_getSuffix(n)
    [] r = "CyrillicPlurality" -> CyrillicPlurality_getSuffix(n)
    [] r = "CzechPlurality"    -> CzechPlurality_getSuffix(n)
    [] r = "PolishPlurality"   -> PolishPlurality_getSuffix(n)
    [] r = "RomanianPlurality" -> RomanianPlurality_getSuffix(n)

\* ------------------------------------------------------------ the factory
\* The pairs with "ru" given the Polish rules.
FactoryEntries_ruAsPolish ==
  << <<"fr",    "ZeroOneSingular">>,
     <<"hu-HU", "NoSingular">>,
     <<"tr-TR", "NoSingular">>,
     <<"cs-CZ", "CzechPlurality">>,
     <<"pl-PL", "PolishPlurality">>,
     <<"ro",    "RomanianPlurality">>,
     <<"ru",    "PolishPlurality">>,
     <<"uk",    "CyrillicPlurality">> >>

\* The pairs create() inserts, in the order of the insert statements.
FactoryEntries ==
  << <<"fr",    "ZeroOneSingular">>,
     <<"hu-HU", "NoSingular">>,
     <<"tr-TR", "NoSingular">>,
     <<"cs-CZ", "CzechPlurality">>,
     <<"pl-PL", "PolishPlurality">>,
     <<"ro",    "RomanianPlurality">>,
     <<"ru",    "CyrillicPlurality">>,
     <<"uk",    "CyrillicPlurality">> >>

\* A default that also takes 0 as singular.
DefaultCreator_zeroOne == "ZeroOneSingular"

\* The creator create() starts from before the lookup.
DefaultCreator == "OneSingular"

\* The languages the callers pass: the eight keys and some that are not keys.
Languages ==
  {"fr", "hu-HU", "tr-TR", "cs-CZ", "pl-PL", "ro", "ru", "uk",
   "", "RU", "ru-RU", "en-US", "xx-unknown"}

\* A std::map is a function from the keys it holds; the empty map:
EmptyMap == [k \in {} |-> "OneSingular"]

\* std::map::insert(pair): adds the pair unless the key is already there.
MapInsert(m, e) ==
  IF e[1] \in DOMAIN m
  THEN m
  ELSE [k \in DOMAIN m \cup {e[1]} |-> IF k = e[1] THEN e[2] ELSE m[k]]

\* std::map::find followed by the use of found->second, or the default.
MapFind(m, k) ==
  IF k \in DOMAIN m THEN m[k] ELSE DefaultCreator

VARIABLES
  s_factoryFunctions,  \* the static map
  pc,                  \* per thread: where it is in create()
  language,            \* per thread: the argument of its create() call
  next,                \* per thread: the next insert statement (1..8)
  creator,             \* per thread: the rule its create() call made
  calls,               \* history: create() calls started so far
  populators,          \* history: the threads that entered the if-block
  rule, n, suffix      \* a rule instance, a count and getSuffix's result

vars == <<s_factoryFunctions, pc, language, next, creator, calls, populators,
          rule, n, suffix>>

factoryVars == <<s_factoryFunctions, pc, language, next, creator, calls,
                 populators>>
ruleVars == <<rule, n, suffix>>

NoRule == "null"
NoSuffix == "null"
NoLanguage == "<none>"

\* Another thread is inside the population block of create().
OtherWriter(t) == \E u \in Threads \ {t} : pc[u] = "insert"

\* create() is entered with argument l.
Call(t, l) ==
  /\ pc[t] = "idle"
  /\ calls' = calls + 1
  /\ pc' = [pc EXCEPT ![t] = "check"]
  /\ language' = [language EXCEPT ![t] = l]
  /\ UNCHANGED <<s_factoryFunctions, next, creator, populators, ruleVars>>

\* if (s_factoryFunctions.empty())
CheckEmpty(t) ==
  /\ pc[t] = "check"
  /\ IF DOMAIN s_factoryFunctions = {}
     THEN /\ pc' = [pc EXCEPT ![t] = "insert"]
          /\ next' = [next EXCEPT ![t] = 1]
          /\ populators' = populators \cup {t}
     ELSE /\ pc' = [pc EXCEPT ![t] = "find"]
          /\ UNCHANGED <<next, populators>>
  /\ UNCHANGED <<s_factoryFunctions, language, creator, calls, ruleVars>>

\* One of the eight insert statements.  Two threads inside the block write
\* the map without synchronisation; such an insert either takes effect or
\* is lost.
Insert(t) ==
  /\ pc[t] = "insert"
  /\ \/ s_factoryFunctions' = MapInsert(s_factoryFunctions, FactoryEntries[next[t]])
     \/ /\ OtherWriter(t)
        /\ s_factoryFunctions' = s_factoryFunctions
  /\ IF next[t] < Len(FactoryEntries)
     THEN /\ next' = [next EXCEPT ![t] = next[t] + 1]
          /\ pc' = pc
     ELSE /\ next' = [next EXCEPT ![t] = 0]
          /\ pc' = [pc EXCEPT ![t] = "find"]
  /\ UNCHANGED <<language, creator, calls, populators, ruleVars>>

\* The lookup written with operator[]-like caching: a miss stores the
\* default under the language asked for.
Find_caching(t) ==
  /\ pc[t] = "find"
  /\ creator' = [creator EXCEPT ![t] = MapFind(s_factoryFunctions, language[t])]
  /\ s_factoryFunctions' = MapInsert(s_factoryFunctions, <<language[t], DefaultCreator>>)
  /\ pc' = [pc EXCEPT ![t] = "ret"]
  /\ UNCHANGED <<language, next, calls, populators, ruleVars>>

\* creator = &OneSingular::create; found = find(language); ...;
\* return (*creator)();
Find(t) ==
  /\ pc[t] = "find"
  /\ creator' = [creator EXCEPT ![t] = MapFind(s_factoryFunctions, language[t])]
  /\ pc' = [pc EXCEPT ![t] = "ret"]
  /\ UNCHANGED <<s_factoryFunctions, language, next, calls, populators, ruleVars>>

\* The caller applies the rule it got to a count.
Classify(t, k) ==
  /\ pc[t] = "ret"
  /\ rule' = creator[t]
  /\ n' = k
  /\ suffix' = getSuffix(creator[t], k)
  /\ pc' = [pc EXCEPT ![t] = "classified"]
  /\ UNCHANGED <<s_factoryFunctions, language, next, creator, calls, populators>>

\* The caller is done with the rule and drops it.
Release(t) ==
  /\ pc[t] \in {"ret", "classified"}
  /\ pc' = [pc EXCEPT ![t] = "idle"]
  /\ language' = [language EXCEPT ![t] = NoLanguage]
  /\ creator' = [creator EXCEPT ![t] = NoRule]
  /\ rule' = NoRule
  /\ n' = 0
  /\ suffix' = NoSuffix
  /\ UNCHANGED <<s_factoryFunctions, next, calls, populators>>

\* The state at program start: the static map is default-constructed.
InitFactory ==
  /\ s_factoryFunctions = EmptyMap
  /\ pc = [t \in Threads |-> "idle"]
  /\ language = [t \in Threads |-> NoLanguage]
  /\ next = [t \in Threads |-> 0]
  /\ creator = [t \in Threads |-> NoRule]
  /\ calls = 0
  /\ populators = {}

Init ==
  /\ InitFactory
  /\ rule = NoRule
  /\ n = 0
  /\ suffix = NoSuffix

\* Threads call create() at any time.
ConcCall(t, l) == calls < MaxConcurrentCalls /\ Call(t, l)

Next ==
  \/ \E t \in Threads, l \in Languages : ConcCall(t, l)
  \/ \E t \in Threads : CheckEmpty(t)
  \/ \E t \in Threads : Insert(t)
  \/ \E t \in Threads : Find(t)
  \/ \E t \in Threads : Release(t)

Spec == Init /\ [][Next]_vars

\* A call starts only when no other call is in progress.
AllIdle == \A t \in Threads : pc[t] = "idle"

SeqCall(t, l) == AllIdle /\ calls < MaxCalls /\ Call(t, l)

NextSeq ==
  \/ \E t \in Threads, l \in Languages : SeqCall(t, l)
  \/ \E t \in Threads : CheckEmpty(t)
  \/ \E t \in Threads : Insert(t)
  \/ \E t \in Threads : Find(t)
  \/ \E t \in Threads, k \in 0..MaxN : Classify(t, k)
  \/ \E t \in Threads : Release(t)

SpecSeq == Init /\ [][NextSeq]_vars

\* ------------------------------------------------- a rule applied to a count
InitFn ==
  /\ InitFactory
  /\ rule \in Variants
  /\ n \in 0..MaxN
  /\ suffix = NoSuffix

\* suffix = rule->getSuffix(n)
Apply ==
  /\ suffix = NoSuffix
  /\ suffix' = getSuffix(rule, n)
  /\ UNCHANGED <<rule, n, factoryVars>>

\* The caller goes on to another rule and count.
Pick(r, k) ==
  /\ suffix # NoSuffix
  /\ rule' = r
  /\ n' = k
  /\ suffix' = NoSuffix
  /\ UNCHANGED factoryVars

NextFn ==
  \/ Apply
  \/ \E r \in Variants, k \in 0..MaxN : Pick(r, k)

SpecFn == InitFn /\ [][NextFn]_vars

\* ================================================================ claims
Suffixes == {"_one", "_few", "_many", "_other"}

\* The identifiers and variants as the documentation lists them.
ListedIds == {"fr", "hu-HU", "tr-TR", "cs-CZ", "pl-PL", "ro", "ru", "uk"}

ListedVariant(l) ==
  CASE l = "fr"    -> "ZeroOneSingular"
    [] l = "hu-HU" -> "NoSingular"
    [] l = "tr-TR" -> "NoSingular"
    [] l = "cs-CZ" -> "CzechPlurality"
    [] l = "pl-PL" -> "PolishPlurality"
    [] l = "ro"    -> "RomanianPlurality"
    [] l = "ru"    -> "CyrillicPlurality"
    [] l = "uk"    -> "CyrillicPlurality"

ListedTable == [l \in ListedIds |-> ListedVariant(l)]

Returned(t) == pc[t] \in {"ret", "classified"}

\* C1: in a sequential run, whatever calls came before, create(l) for each
\* of the eight listed identifiers returns the variant listed for it, and
\* the rule returned for "ru" classifies 21 as "_one".
C1_ListedResolve ==
  \A t \in Threads :
    /\ (Returned(t) /\ language[t] \in ListedIds)
         => creator[t] = ListedVariant(language[t])
    /\ (pc[t] = "classified" /\ language[t] = "ru" /\ n = 21)
         => suffix = "_one"

\* A later call resolved "ru" and classified 21.
C1_Witness ==
  \E t \in Threads :
    /\ calls >= 2
    /\ pc[t] = "classified"
    /\ language[t] = "ru"
    /\ creator[t] = "CyrillicPlurality"
    /\ n = 21
    /\ suffix = "_one"

\* C2: in a sequential run, first call or later, create(x) for an x that is
\* not one of the eight listed identifiers returns a rule (never none) whose
\* getSuffix gives "_one" for 1 and "_other" for every other count.
C2_Fallback ==
  \A t \in Threads :
    (language[t] \in Languages \ ListedIds) =>
      /\ Returned(t) => creator[t] \in Variants
      /\ Returned(t) => \A k \in 0..MaxN :
           getSuffix(creator[t], k) = IF k = 1 THEN "_one" ELSE "_other"
      /\ pc[t] = "classified" =>
           suffix = IF n = 1 THEN "_one" ELSE "_other"

\* A later call resolved the dialect "ru-RU" and classified 21 as "_other".
C2_Witness ==
  \E t \in Threads :
    /\ calls >= 2
    /\ pc[t] = "classified"
    /\ language[t] = "ru-RU"
    /\ n = 21
    /\ suffix = "_other"

\* C3: with concurrent callers, every create() of a listed identifier
\* returns the listed variant, never the default taken from a partially
\* populated map.
C3_NoPartialLookup ==
  \A t \in Threads :
    (Returned(t) /\ language[t] \in ListedIds)
      => creator[t] = ListedVariant(language[t])

\* C4: with concurrent callers, at most one caller ever enters the
\* population block and no two callers are inserting at the same time.
C4_PopulatedOnce ==
  /\ Cardinality(populators) <= 1
  /\ Cardinality({t \in Threads : pc[t] = "insert"}) <= 1

\* C5: in a sequential run the map is empty before the first call, holds
\* exactly the eight listed entries once the first call has returned, and
\* stays that way during and after every later call.
C5_BuiltOnce ==
  /\ calls = 0 => s_factoryFunctions = EmptyMap
  /\ (calls = 1 /\ \A t \in Threads : pc[t] \in {"idle", "ret", "classified"})
       => s_factoryFunctions = ListedTable
  /\ calls >= 2 => s_factoryFunctions = ListedTable

\* A third call, with an unknown identifier, has returned and the map holds
\* the eight entries.
C5_Witness ==
  \E t \in Threads :
    /\ calls = 3
    /\ pc[t] = "ret"
    /\ language[t] = "xx-unknown"
    /\ DOMAIN s_factoryFunctions = ListedIds

\* C6: every variant's getSuffix, for every count in 0..200, returns one of
\* the four suffixes.
C6_Totality ==
  suffix # NoSuffix => suffix \in Suffixes

\* RomanianPlurality has classified the largest count.
C6_Witness ==
  /\ rule = "RomanianPlurality"
  /\ n = 200
  /\ suffix = "_other"

\* The first matching test of the documented Cyrillic rule.
CyrillicRule(k) ==
  IF k % 10 = 1 /\ k % 100 # 11 THEN "_one"
  ELSE IF k % 10 \in 2..4 /\ k % 100 \notin 12..14 THEN "_few"
  ELSE IF k % 10 = 0 \/ k % 10 \in 5..9 \/ k % 100 \in 11..14 THEN "_many"
  ELSE "_other"

\* C7: CyrillicPlurality's getSuffix is the first matching test of the
\* documented rule; 1, 21, 31, 101 give "_one", 2-4 and 22-24 give "_few",
\* 0, 5-20, 25-30 and 111-114 give "_many".
C7_Cyrillic ==
  (rule = "CyrillicPlurality" /\ suffix # NoSuffix) =>
    /\ suffix = CyrillicRule(n)
    /\ n \in {1, 21, 31, 101} => suffix = "_one"
    /\ n \in (2..4) \cup (22..24) => suffix = "_few"
    /\ n \in {0} \cup (5..20) \cup (25..30) \cup (111..114) => suffix = "_many"

\* CyrillicPlurality has classified 111.
C7_Witness ==
  /\ rule = "CyrillicPlurality"
  /\ n = 111
  /\ suffix = "_many"

\* The first matching test of the documented Polish rule.
PolishRule(k) ==
  IF k = 1 THEN "_one"
  ELSE IF k % 10 \in 2..4 /\ k % 100 \notin 12..14 THEN "_few"
  ELSE IF k % 10 \in 0..1 \/ k % 10 \in 5..9 \/ k % 100 \in 12..14 THEN "_many"
  ELSE "_other"

\* C8: PolishPlurality's getSuffix is the first matching test of the
\* documented rule; only 1 gives "_one" (11, 21, 101 give "_many"), 2-4 and
\* 22-24 give "_few", 0, 5-21, 25-31 and 112-114 give "_many".
C8_Polish ==
  (rule = "PolishPlurality" /\ suffix # NoSuffix) =>
    /\ suffix = PolishRule(n)
    /\ suffix = "_one" <=> n = 1
    /\ n \in {11, 21, 101} => suffix = "_many"
    /\ n \in (2..4) \cup (22..24) => suffix = "_few"
    /\ n \in {0} \cup (5..21) \cup (25..31) \cup (112..114) => suffix = "_many"

\* PolishPlurality has classified 21.
C8_Witness ==
  /\ rule = "PolishPlurality"
  /\ n = 21
  /\ suffix = "_many"

\* The first matching test of the documented Romanian rule.
RomanianRule(k) ==
  IF k = 1 THEN "_one"
  ELSE IF k = 0 \/ k % 100 \in 1..19 THEN "_few"
  ELSE "_other"

\* C9: RomanianPlurality's getSuffix is the first matching test of the
\* documented rule; 0, 2-19 and 101-119 give "_few" (101 is not "_one"),
\* 20-100 and 120-200 give "_other".
C9_Romanian ==
  (rule = "RomanianPlurality" /\ suffix # NoSuffix) =>
    /\ suffix = RomanianRule(n)
    /\ n \in {0} \cup (2..19) \cup (101..119) => suffix = "_few"
    /\ n \in (20..100) \cup (120..200) => suffix = "_other"

\* RomanianPlurality has classified 101.
C9_Witness ==
  /\ rule = "RomanianPlurality"
  /\ n = 101
  /\ suffix = "_few"

\* C10: CyrillicPlurality and PolishPlurality never take the final
\* fallback: their getSuffix never returns "_other".
C10_NoFallback ==
  (rule \in {"CyrillicPlurality", "PolishPlurality"} /\ suffix # NoSuffix)
    => suffix \in {"_one", "_few", "_many"}

\* PolishPlurality has classified 11, which only the "_many" test catches.
C10_Witness ==
  /\ rule = "PolishPlurality"
  /\ n = 11
  /\ suffix = "_many"

====
